---- MODULE Spec2Model ----
(***************************************************************************)
(* A model of egotism's Loopback::start (src/src/lib.rs): the latency      *)
(* primer, the ring buffer shared by the capture and the render callback,  *)
(* and the session's life from device lookup to the release of the         *)
(* streams.                                                                *)
(*                                                                         *)
(* The ring buffer (ringbuf::HeapRb) and the streams (cpal) are libraries: *)
(* they are modelled by the contract the calls in lib.rs rely on, a        *)
(* fixed-capacity FIFO whose push fails when full and whose pop fails      *)
(* when empty, and streams whose callbacks run only between play() and     *)
(* drop.  Samples are integers (0 is silence); the latency is a single     *)
(* precision float and is computed as one.                                 *)
(***************************************************************************)
EXTENDS Integers, Sequences, FiniteSets, TLC

(***************************************************************************)
(* Single precision arithmetic (f32).  A finite f32 is [neg, m, e] with    *)
(* value (-1)^neg * m * 2^e, m = 0 (zero) or 2^23 <= m < 2^24.  Results    *)
(* are rounded to nearest, ties to even, as in IEEE 754.  Exponent         *)
(* overflow and subnormals are outside the inputs used here.               *)
(***************************************************************************)
MantBits == 24

Pow2(n) == 2 ^ n

MantMin == Pow2(MantBits - 1)

MantMax == Pow2(MantBits)

F32Zero(neg) == [neg |-> neg, m |-> 0, e |-> 0]

RECURSIVE ShiftUp(_, _)
\* Normalises 0 < m < 2^24 exactly: shifts left until 2^23 <= m.
ShiftUp(m, e) ==
    IF m >= MantMin THEN <<m, e>> ELSE ShiftUp(2 * m, e - 1)

\* Round to nearest, ties to even: m is the kept mantissa, round the first
\* dropped bit, sticky whether any later dropped bit is set.
RoundNearestEven(neg, m, e, round, sticky) ==
    LET up == round /\ (sticky \/ m % 2 = 1)
        m1 == IF up THEN m + 1 ELSE m
    IN  IF m1 = MantMax
        THEN [neg |-> neg, m |-> MantMin, e |-> e + 1]
        ELSE [neg |-> neg, m |-> m1, e |-> e]

RECURSIVE ShiftDownSticky(_, _, _)
\* Shifts m right until m < 2^25, keeping whether a set bit was dropped.
ShiftDownSticky(m, e, sticky) ==
    IF m < 2 * MantMax THEN <<m, e, sticky>>
    ELSE ShiftDownSticky(m \div 2, e + 1, sticky \/ m % 2 = 1)

\* `n as f32` for an unsigned integer n < 2^31: exact below 2^24, rounded
\* above.
F32FromInt(n) ==
    IF n = 0 THEN F32Zero(FALSE)
    ELSE IF n < MantMax
    THEN LET s == ShiftUp(n, 0) IN [neg |-> FALSE, m |-> s[1], e |-> s[2]]
    ELSE LET s == ShiftDownSticky(n, 0, FALSE)
         IN  RoundNearestEven(FALSE, s[1] \div 2, s[2] + 1, s[1] % 2 = 1, s[3])

\* The f32 literal k * 2^p (k an integer, |k| < 2^24): exact.
F32Lit(k, p) ==
    IF k = 0 THEN F32Zero(FALSE)
    ELSE LET a == IF k < 0 THEN -k ELSE k
             s == ShiftUp(a, p)
         IN  [neg |-> k < 0, m |-> s[1], e |-> s[2]]

RECURSIVE DivBits(_, _, _, _)
\* Long division, one bit a step: k more quotient bits of r / d (r < d).
DivBits(r, d, k, q) ==
    IF k = 0 THEN <<q, r>>
    ELSE IF 2 * r >= d THEN DivBits(2 * r - d, d, k - 1, 2 * q + 1)
    ELSE DivBits(2 * r, d, k - 1, 2 * q)

\* a / b in f32, b nonzero.
F32Div(a, b) ==
    LET neg == (a.neg /\ ~b.neg) \/ (~a.neg /\ b.neg) IN
    IF a.m = 0 THEN F32Zero(neg)
    ELSE LET q0  == IF a.m >= b.m THEN 1 ELSE 0
             qr  == DivBits(a.m - q0 * b.m, b.m, MantBits + 1, q0)
             Q   == qr[1]
             rem == qr[2]
         IN  IF q0 = 1
             THEN RoundNearestEven(neg, Q \div 4, a.e - b.e - (MantBits - 1),
                                   (Q \div 2) % 2 = 1, Q % 2 = 1 \/ rem # 0)
             ELSE RoundNearestEven(neg, Q \div 2, a.e - b.e - MantBits,
                                   Q % 2 = 1, rem # 0)

\* Half the mantissa width: the product of two mantissas is formed from the
\* products of their halves, each of which fits a 32 bit integer.
HalfBits == 12

\* a * b in f32.
F32Mul(a, b) ==
    LET neg == (a.neg /\ ~b.neg) \/ (~a.neg /\ b.neg) IN
    IF a.m = 0 \/ b.m = 0 THEN F32Zero(neg)
    ELSE LET H   == Pow2(HalfBits)
             ah  == a.m \div H
             al  == a.m % H
             bh  == b.m \div H
             bl  == b.m % H
             mid == ah * bl + al * bh
             los == al * bl + (mid % H) * H
             lo  == los % MantMax
             hi  == ah * bh + mid \div H + los \div MantMax
             \* the product is hi * 2^24 + lo, in [2^46, 2^48)
         IN  IF hi >= MantMin
             THEN RoundNearestEven(neg, hi, a.e + b.e + MantBits,
                                   lo >= MantMin, lo % MantMin # 0)
             ELSE RoundNearestEven(neg, 2 * hi + lo \div MantMin,
                                   a.e + b.e + MantBits - 1,
                                   (lo \div (MantMin \div 2)) % 2 = 1,
                                   lo % (MantMin \div 2) # 0)

\* A conversion that rounds to the nearest integer, halves away from zero.
F32ToUsizeRounded(x) ==
    IF x.neg \/ x.m = 0 THEN 0
    ELSE IF x.e >= 0 THEN x.m * Pow2(x.e)
    ELSE IF -x.e > MantBits THEN 0
    ELSE (x.m + Pow2(-x.e - 1)) \div Pow2(-x.e)

\* `x as usize`: truncation toward zero; a negative value gives 0.  (The
\* cast saturates at usize::MAX; the inputs used here stay below 2^31.)
F32ToUsize(x) ==
    IF x.neg \/ x.m = 0 THEN 0
    ELSE IF x.e >= 0 THEN x.m * Pow2(x.e)
    ELSE IF -x.e >= MantBits THEN 0
    ELSE x.m \div Pow2(-x.e)

(***************************************************************************)
(* The ring buffer, ringbuf::HeapRb<f32>: a FIFO of at most `cap` samples. *)
(***************************************************************************)
\* Not a sample: what an output slot holds before the callback writes it, and
\* what a pop that found nothing carries.
Stale == -1

\* A push that admits one sample more than the capacity.
PushOffByOne(buf, cap, s) ==
    IF Len(buf) <= cap
    THEN [ok |-> TRUE, buf |-> Append(buf, s)]
    ELSE [ok |-> FALSE, buf |-> buf]

\* A push that makes room by dropping the oldest sample.
PushOverwrite(buf, cap, s) ==
    IF Len(buf) < cap
    THEN [ok |-> TRUE, buf |-> Append(buf, s)]
    ELSE [ok |-> FALSE, buf |-> IF buf = <<>> THEN buf
                                ELSE Append(Tail(buf), s)]

\* A push that reports success and stores nothing.
PushLoses(buf, cap, s) ==
    IF Len(buf) < cap
    THEN [ok |-> TRUE, buf |-> buf]
    ELSE [ok |-> FALSE, buf |-> buf]

\* producer.push(s): Err(s) and no change when full.
Push(buf, cap, s) ==
    IF Len(buf) < cap
    THEN [ok |-> TRUE, buf |-> Append(buf, s)]
    ELSE [ok |-> FALSE, buf |-> buf]

\* A pop that takes the newest sample.
PopNewest(buf) ==
    IF buf = <<>>
    THEN [some |-> FALSE, val |-> Stale, buf |-> buf]
    ELSE [some |-> TRUE, val |-> buf[Len(buf)],
          buf |-> SubSeq(buf, 1, Len(buf) - 1)]

\* A pop that leaves the sample it returns in the ring.
PopKeeps(buf) ==
    IF buf = <<>>
    THEN [some |-> FALSE, val |-> Stale, buf |-> buf]
    ELSE [some |-> TRUE, val |-> Head(buf), buf |-> buf]

\* consumer.pop(): None when empty, else the oldest sample.
Pop(buf) ==
    IF buf = <<>>
    THEN [some |-> FALSE, val |-> Stale, buf |-> buf]
    ELSE [some |-> TRUE, val |-> Head(buf), buf |-> Tail(buf)]

(***************************************************************************)
(* The host's devices, in enumeration order, and the names a Loopback may  *)
(* be configured with.                                                     *)
(***************************************************************************)
NoDevice == "none"

HostInputDevices == <<"mic", "usb">>

HostOutputDevices == <<"spk", "usb">>

DeviceNames == {"default", "usb"}

\* stringify!(y): the text of the token y, whatever y holds.
Stringify(y) == "y"

\* devices.find(|x| x.name().map(|y| &stringify!(y) == &wanted).unwrap_or(false))
FindDevice(devices, wanted) ==
    LET hits == {i \in 1..Len(devices) : Stringify(devices[i]) = wanted}
    IN  IF hits = {} THEN NoDevice
        ELSE devices[CHOOSE i \in hits : \A j \in hits : i <= j]

(***************************************************************************)
(* The latency primer.                                                     *)
(***************************************************************************)
\* (&self.latency / 1_000.0) * config.sample_rate.0 as f32
LatencyFrames(latency, sample_rate) ==
    F32Mul(F32Div(latency, F32Lit(1000, 0)), F32FromInt(sample_rate))

\* A sample count that forgets the channels.
LatencySamplesOneChannel(frames, channels) == F32ToUsize(frames)

\* latency_frames as usize * config.channels as usize
LatencySamples(frames, channels) == F32ToUsize(frames) * channels

\* A ring with room for the latency only.
RingCapacityHalved(samples) == samples \div 2

\* A ring with room for one and a half latencies.
RingCapacityTight(samples) == samples + samples \div 2

\* HeapRb::<f32>::new(latency_samples * 2)
RingCapacity(samples) == samples * 2

(***************************************************************************)
(* Bounds of the model.                                                    *)
(***************************************************************************)
\* Samples the input stream hands to the capture callback in one session,
\* over all its blocks.
MaxOffered == 3

\* Slots the output stream asks the render callback to fill in one session,
\* over all its blocks.
MaxRequested == 3

\* Captured sample values are 1..MaxSample; 0 is silence.
MaxSample == 2

\* Stream faults reported in one session.
MaxErrors == 1

Samples == 1..MaxSample

RECURSIVE SeqsUpTo(_, _)
\* The non-empty sequences over S of length at most n.
SeqsUpTo(S, n) ==
    IF n = 0 THEN {}
    ELSE LET shorter == SeqsUpTo(S, n - 1)
         IN  {<<v>> : v \in S} \cup shorter
             \cup {Append(q, v) : q \in shorter, v \in S}

CaptureBlocks == SeqsUpTo(Samples, MaxOffered)

RenderBlockLengths == 1..MaxRequested

Zeros(n) == [i \in 1..n |-> 0]

\* The latencies (ms), sample rates and channel counts of the session model:
\* 0, 0.1875 and 0.25 ms at 8000 Hz are 0, 1.5 and 2 frames.
SessionLatencies == {F32Lit(0, 0), F32Lit(3, -4), F32Lit(1, -2)}

SessionRates == {8000}

SessionChannels == {1, 2}

VARIABLES
    self,            \* the Loopback: input_device, output_device, latency
    host,            \* the host's default devices
    pc,              \* where start() is
    result,          \* "running", or how start() ended: "Ok", "Err", a panic
    input_device,    \* the device found, or NoDevice
    output_device,
    config,          \* the StreamConfig, or NoConfig
    latency_frames,  \* f32
    latency_samples, \* usize
    capacity,        \* of the ring
    ring,            \* the samples in the ring, oldest first
    prime_i,         \* priming pushes done
    input_stream,    \* "none", "built", "playing", "dropped"
    output_stream,
    capture,         \* the capture callback (input_data_fn)
    render,          \* the render callback (output_data_fn)
    pushed,          \* history: the captured samples whose push succeeded
    popped,          \* history: the samples popped
    offered,         \* history: samples handed to the capture callback
    requested,       \* history: slots the render callback was asked to fill
    errors           \* history: stream faults err_fn reported during playback

startVars == <<pc, result, input_device, output_device, config,
               latency_frames, latency_samples, capacity, prime_i>>

streamVars == <<input_stream, output_stream>>

captureVars == <<capture, pushed, offered>>

renderVars == <<render, popped, requested>>

vars == <<self, host, startVars, ring, streamVars, captureVars, renderVars,
          errors>>

NoConfig == [sample_rate |-> 0, channels |-> 0]

\* The panics of start(): the two expect()s, HeapRb::new, the unwrap().
Panics == {"panic_input", "panic_output", "panic_ring", "panic_push"}

CaptureIdle ==
    [pc |-> "idle", data |-> <<>>, i |-> 0, output_fell_behind |-> FALSE,
     failed |-> <<>>, reports |-> 0]

RenderIdle ==
    [pc |-> "idle", len |-> 0, data |-> <<>>, i |-> 0,
     input_fell_behind |-> FALSE, got |-> <<>>, writes |-> <<>>,
     reports |-> 0]

\* Loopback { host, input_device, output_device, latency } before start().
InitWith(latencies, names, defaults_in, defaults_out) ==
    /\ self \in [input_device : names, output_device : names,
                 latency : latencies]
    /\ host \in [default_input : defaults_in, default_output : defaults_out]
    /\ pc = "find_input"
    /\ result = "running"
    /\ input_device = NoDevice
    /\ output_device = NoDevice
    /\ config = NoConfig
    /\ latency_frames = F32Zero(FALSE)
    /\ latency_samples = 0
    /\ capacity = 0
    /\ ring = <<>>
    /\ prime_i = 0
    /\ input_stream = "none"
    /\ output_stream = "none"
    /\ capture = CaptureIdle
    /\ render = RenderIdle
    /\ pushed = <<>>
    /\ popped = <<>>
    /\ offered = 0
    /\ requested = 0
    /\ errors = 0

Init ==
    InitWith(SessionLatencies, DeviceNames,
             {NoDevice, HostInputDevices[1]}, {NoDevice, HostOutputDevices[1]})

(***************************************************************************)
(* start(): one action for each fallible or state-changing statement.      *)
(***************************************************************************)
\* A drop that leaves the stream as it was.
DroppedLeaks(stream) == stream

\* What dropping a stream handle leaves: a stream never built stays "none".
Dropped(stream) == IF stream = "none" THEN "none" ELSE "dropped"

\* start() ends early: `?` returns the error, expect()/unwrap() panic.  The
\* locals are dropped on the way out, the streams among them, and dropping
\* a stream waits for its callback to return.
Exit(outcome) ==
    /\ capture.pc = "idle"
    /\ render.pc = "idle"
    /\ pc' = "returned"
    /\ result' = outcome
    /\ input_stream' = Dropped(input_stream)
    /\ output_stream' = Dropped(output_stream)
    /\ UNCHANGED <<self, host, input_device, output_device, config,
                   latency_frames, latency_samples, capacity, prime_i, ring,
                   captureVars, renderVars, errors>>

\* Step to the next statement, nothing else changing.
Goto(next) ==
    /\ pc' = next
    /\ UNCHANGED <<self, host, result, input_device, output_device, config,
                   latency_frames, latency_samples, capacity, prime_i, ring,
                   streamVars, captureVars, renderVars, errors>>

\* The device a name selects: the host's default for "default", else the
\* first enumerated device the closure accepts.
Lookup(wanted, default, devices) ==
    IF wanted = "default" THEN default ELSE FindDevice(devices, wanted)

\* host.input_devices()? fails.
InputDevicesErr ==
    /\ pc = "find_input"
    /\ self.input_device # "default"
    /\ Exit("Err")

\* let input_device = ... .expect("Failed to find input device!")
FindInput ==
    /\ pc = "find_input"
    /\ LET d == Lookup(self.input_device, host.default_input, HostInputDevices)
       IN  IF d = NoDevice
           THEN Exit("panic_input")
           ELSE /\ input_device' = d
                /\ pc' = "find_output"
                /\ UNCHANGED <<self, host, result, output_device, config,
                               latency_frames, latency_samples, capacity,
                               prime_i, ring, streamVars, captureVars,
                               renderVars, errors>>

\* host.output_devices()? fails.
OutputDevicesErr ==
    /\ pc = "find_output"
    /\ self.output_device # "default"
    /\ Exit("Err")

\* let output_device = ... .expect("Failed to find output device!")
FindOutput ==
    /\ pc = "find_output"
    /\ LET d == Lookup(self.output_device, host.default_output,
                       HostOutputDevices)
       IN  IF d = NoDevice
           THEN Exit("panic_output")
           ELSE /\ output_device' = d
                /\ pc' = "print_names"
                /\ UNCHANGED <<self, host, result, input_device, config,
                               latency_frames, latency_samples, capacity,
                               prime_i, ring, streamVars, captureVars,
                               renderVars, errors>>

\* println!(.., input_device.name()?); println!(.., output_device.name()?)
PrintNames ==
    /\ pc = "print_names"
    /\ \/ Exit("Err")
       \/ Goto("config")

\* let config = input_device.default_input_config()?.into()
DefaultInputConfig(rates, channels) ==
    /\ pc = "config"
    /\ \/ Exit("Err")
       \/ /\ \E r \in rates, c \in channels :
                config' = [sample_rate |-> r, channels |-> c]
          /\ pc' = "latency"
          /\ UNCHANGED <<self, host, result, input_device, output_device,
                         latency_frames, latency_samples, capacity, prime_i,
                         ring, streamVars, captureVars, renderVars, errors>>

\* let latency_frames = ...; let latency_samples = ...
ComputeLatency ==
    /\ pc = "latency"
    /\ latency_frames' = LatencyFrames(self.latency, config.sample_rate)
    /\ latency_samples' = LatencySamples(latency_frames', config.channels)
    /\ pc' = "ring"
    /\ UNCHANGED <<self, host, result, input_device, output_device, config,
                   capacity, prime_i, ring, streamVars, captureVars,
                   renderVars, errors>>

\* let ring = HeapRb::<f32>::new(latency_samples * 2); ring.split()
\* Whether HeapRb::new(0) panics or gives an empty ring of capacity 0 is the
\* library's choice: both are outcomes.
NewRing ==
    /\ pc = "ring"
    /\ \/ /\ RingCapacity(latency_samples) = 0
          /\ Exit("panic_ring")
       \/ /\ capacity' = RingCapacity(latency_samples)
          /\ ring' = <<>>
          /\ prime_i' = 0
          /\ pc' = "prime"
          /\ UNCHANGED <<self, host, result, input_device, output_device,
                         config, latency_frames, latency_samples, streamVars,
                         captureVars, renderVars, errors>>

\* A priming loop that stops one push short.
PrimeLoopShort(buf, cap, n) ==
    [ok |-> TRUE, pushes |-> IF n = 0 THEN 0 ELSE n - 1,
     buf |-> buf \o Zeros(IF n = 0 THEN 0 ELSE n - 1)]

RECURSIVE PrimeLoop(_, _, _)
\* for _ in 0..n { producer.push(0.0).unwrap(); }: the pushes in order, up
\* to the first that fails.  The n iterations are taken as the first n / 2
\* followed by the rest, which keeps the evaluation shallow.
PrimeLoop(buf, cap, n) ==
    IF n = 0 THEN [ok |-> TRUE, pushes |-> 0, buf |-> buf]
    ELSE IF n = 1
    THEN LET r == Push(buf, cap, 0)
         IN  [ok |-> r.ok, pushes |-> IF r.ok THEN 1 ELSE 0, buf |-> r.buf]
    ELSE LET first == PrimeLoop(buf, cap, n \div 2)
         IN  IF ~first.ok THEN first
             ELSE LET rest == PrimeLoop(first.buf, cap, n - n \div 2)
                  IN  [ok |-> rest.ok, pushes |-> first.pushes + rest.pushes,
                       buf |-> rest.buf]

\* The priming loop, which runs before any stream exists; the closures then
\* take the producer and the consumer.  A failed push panics in unwrap().
Prime ==
    /\ pc = "prime"
    /\ LET r == PrimeLoop(ring, capacity, latency_samples)
       IN  /\ ring' = r.buf
           /\ prime_i' = r.pushes
           /\ pc' = IF r.ok THEN "build_input" ELSE "returned"
           /\ result' = IF r.ok THEN result ELSE "panic_push"
    /\ UNCHANGED <<self, host, input_device, output_device, config,
                   latency_frames, latency_samples, capacity, streamVars,
                   captureVars, renderVars, errors>>

\* A build that also starts the input stream.
BuildInputStreamPlaying ==
    /\ pc = "build_input"
    /\ \/ Exit("Err")
       \/ /\ input_stream' = "playing"
          /\ pc' = "build_output"
          /\ UNCHANGED <<self, host, result, input_device, output_device,
                         config, latency_frames, latency_samples, capacity,
                         prime_i, ring, output_stream, captureVars,
                         renderVars, errors>>

\* let input_stream = input_device.build_input_stream(..)?
BuildInputStream ==
    /\ pc = "build_input"
    /\ \/ Exit("Err")
       \/ /\ input_stream' = "built"
          /\ pc' = "build_output"
          /\ UNCHANGED <<self, host, result, input_device, output_device,
                         config, latency_frames, latency_samples, capacity,
                         prime_i, ring, output_stream, captureVars,
                         renderVars, errors>>

\* let output_stream = output_device.build_output_stream(..)?
BuildOutputStream ==
    /\ pc = "build_output"
    /\ \/ Exit("Err")
       \/ /\ output_stream' = "built"
          /\ pc' = "play_input"
          /\ UNCHANGED <<self, host, result, input_device, output_device,
                         config, latency_frames, latency_samples, capacity,
                         prime_i, ring, input_stream, captureVars, renderVars,
                         errors>>

\* input_stream.play()?
PlayInput ==
    /\ pc = "play_input"
    /\ \/ Exit("Err")
       \/ /\ input_stream' = "playing"
          /\ pc' = "play_output"
          /\ UNCHANGED <<self, host, result, input_device, output_device,
                         config, latency_frames, latency_samples, capacity,
                         prime_i, ring, output_stream, captureVars,
                         renderVars, errors>>

\* output_stream.play()?
PlayOutput ==
    /\ pc = "play_output"
    /\ \/ Exit("Err")
       \/ /\ output_stream' = "playing"
          /\ pc' = "sleep"
          /\ UNCHANGED <<self, host, result, input_device, output_device,
                         config, latency_frames, latency_samples, capacity,
                         prime_i, ring, input_stream, captureVars, renderVars,
                         errors>>

\* A sleep that never returns.
SleepForever ==
    /\ pc = "sleep"
    /\ UNCHANGED vars

\* std::thread::sleep(3 s) returns.
Sleep ==
    /\ pc = "sleep"
    /\ Goto("drop_input")

\* A drop of the input stream that does not wait for its callback.
DropInputNoWait ==
    /\ pc = "drop_input"
    /\ input_stream' = "dropped"
    /\ pc' = "drop_output"
    /\ UNCHANGED <<self, host, result, input_device, output_device, config,
                   latency_frames, latency_samples, capacity, prime_i, ring,
                   output_stream, captureVars, renderVars, errors>>

\* drop(input_stream): returns once the capture callback is not running.
DropInput ==
    /\ pc = "drop_input"
    /\ capture.pc = "idle"
    /\ input_stream' = "dropped"
    /\ pc' = "drop_output"
    /\ UNCHANGED <<self, host, result, input_device, output_device, config,
                   latency_frames, latency_samples, capacity, prime_i, ring,
                   output_stream, captureVars, renderVars, errors>>

\* drop(output_stream): returns once the render callback is not running.
DropOutput ==
    /\ pc = "drop_output"
    /\ render.pc = "idle"
    /\ output_stream' = "dropped"
    /\ pc' = "done"
    /\ UNCHANGED <<self, host, result, input_device, output_device, config,
                   latency_frames, latency_samples, capacity, prime_i, ring,
                   input_stream, captureVars, renderVars, errors>>

\* println!("Done!"); Ok(())
ReturnOk ==
    /\ pc = "done"
    /\ pc' = "returned"
    /\ result' = "Ok"
    /\ UNCHANGED <<self, host, input_device, output_device, config,
                   latency_frames, latency_samples, capacity, prime_i, ring,
                   streamVars, captureVars, renderVars, errors>>

\* The statements of start() up to the end of priming.
Setup(rates, channels) ==
    \/ InputDevicesErr
    \/ FindInput
    \/ OutputDevicesErr
    \/ FindOutput
    \/ PrintNames
    \/ DefaultInputConfig(rates, channels)
    \/ ComputeLatency
    \/ NewRing
    \/ Prime

\* The statements of start() from building the streams to the return.
Run ==
    \/ BuildInputStream
    \/ BuildOutputStream
    \/ PlayInput
    \/ PlayOutput
    \/ Sleep
    \/ DropInput
    \/ DropOutput
    \/ ReturnOk

(***************************************************************************)
(* The capture callback, input_data_fn, one push a step.                   *)
(***************************************************************************)
\* The input stream calls the closure with a block of captured samples.
CaptureBegin(blocks, budget) ==
    /\ input_stream = "playing"
    /\ capture.pc = "idle"
    /\ \E data \in blocks :
          /\ offered + Len(data) <= budget
          /\ capture' = [pc |-> "loop", data |-> data, i |-> 1,
                         output_fell_behind |-> FALSE, failed |-> <<>>,
                         reports |-> 0]
          /\ offered' = offered + Len(data)
    /\ UNCHANGED <<self, host, startVars, ring, streamVars, pushed,
                   renderVars, errors>>

\* A capture loop that a failed push ends.
CapturePushAborts ==
    /\ capture.pc = "loop"
    /\ capture.i <= Len(capture.data)
    /\ LET sample == capture.data[capture.i]
           r      == Push(ring, capacity, sample)
       IN  /\ ring' = r.buf
           /\ capture' = [capture EXCEPT
                             !.i = IF r.ok THEN @ + 1
                                   ELSE Len(capture.data) + 1,
                             !.output_fell_behind = @ \/ ~r.ok,
                             !.failed = Append(@, ~r.ok)]
           /\ pushed' = IF r.ok THEN Append(pushed, sample) ELSE pushed
    /\ UNCHANGED <<self, host, startVars, streamVars, offered, renderVars,
                   errors>>

\* if producer.push(sample).is_err() { output_fell_behind = true; }
CapturePush ==
    /\ capture.pc = "loop"
    /\ capture.i <= Len(capture.data)
    /\ LET sample == capture.data[capture.i]
           r      == Push(ring, capacity, sample)
       IN  /\ ring' = r.buf
           /\ capture' = [capture EXCEPT
                             !.i = @ + 1,
                             !.output_fell_behind = @ \/ ~r.ok,
                             !.failed = Append(@, ~r.ok)]
           /\ pushed' = IF r.ok THEN Append(pushed, sample) ELSE pushed
    /\ UNCHANGED <<self, host, startVars, streamVars, offered, renderVars,
                   errors>>

\* if output_fell_behind { eprintln!("Output stream fell behind! ..") }
CaptureReport ==
    /\ capture.pc = "loop"
    /\ capture.i > Len(capture.data)
    /\ capture' = [capture EXCEPT
                      !.pc = "ret",
                      !.reports = IF capture.output_fell_behind
                                  THEN @ + 1 ELSE @]
    /\ UNCHANGED <<self, host, startVars, ring, streamVars, pushed, offered,
                   renderVars, errors>>

\* The closure returns.
CaptureReturn ==
    /\ capture.pc = "ret"
    /\ capture' = CaptureIdle
    /\ UNCHANGED <<self, host, startVars, ring, streamVars, pushed, offered,
                   renderVars, errors>>

(***************************************************************************)
(* The render callback, output_data_fn, one pop a step.                    *)
(***************************************************************************)
\* The output stream calls the closure with a block to fill.
RenderBegin(lengths, budget) ==
    /\ output_stream = "playing"
    /\ render.pc = "idle"
    /\ \E n \in lengths :
          /\ requested + n <= budget
          /\ render' = [pc |-> "loop", len |-> n,
                        data |-> [k \in 1..n |-> Stale], i |-> 1,
                        input_fell_behind |-> FALSE, got |-> <<>>,
                        writes |-> [k \in 1..n |-> 0], reports |-> 0]
          /\ requested' = requested + n
    /\ UNCHANGED <<self, host, startVars, ring, streamVars, captureVars,
                   popped, errors>>

\* A render that writes whatever the pop carries, silence or not.
RenderSampleUnchecked(r) == r.val

\* match consumer.pop() { Some(s) => s, None => { ..; 0.0 } }
RenderSample(r) == IF r.some THEN r.val ELSE 0

\* *sample = match consumer.pop() { .. }
RenderPop ==
    /\ render.pc = "loop"
    /\ render.i <= Len(render.data)
    /\ LET r == Pop(ring)
       IN  /\ ring' = r.buf
           /\ render' = [render EXCEPT
                            !.data[render.i] = RenderSample(r),
                            !.writes[render.i] = @ + 1,
                            !.i = @ + 1,
                            !.input_fell_behind = @ \/ ~r.some,
                            !.got = Append(@, IF r.some THEN <<r.val>>
                                              ELSE <<>>)]
           /\ popped' = IF r.some THEN Append(popped, r.val) ELSE popped
    /\ UNCHANGED <<self, host, startVars, streamVars, captureVars, requested,
                   errors>>

\* A render callback that reports nothing.
RenderReportSilent ==
    /\ render.pc = "loop"
    /\ render.i > Len(render.data)
    /\ render' = [render EXCEPT !.pc = "ret"]
    /\ UNCHANGED <<self, host, startVars, ring, streamVars, captureVars,
                   popped, requested, errors>>

\* if input_fell_behind { eprintln!("Input stream fell behind! ..") }
RenderReport ==
    /\ render.pc = "loop"
    /\ render.i > Len(render.data)
    /\ render' = [render EXCEPT
                     !.pc = "ret",
                     !.reports = IF render.input_fell_behind
                                 THEN @ + 1 ELSE @]
    /\ UNCHANGED <<self, host, startVars, ring, streamVars, captureVars,
                   popped, requested, errors>>

\* The closure returns.
RenderReturn ==
    /\ render.pc = "ret"
    /\ render' = RenderIdle
    /\ UNCHANGED <<self, host, startVars, ring, streamVars, captureVars,
                   popped, requested, errors>>

(***************************************************************************)
(* The error callback of both streams, err_fn.                             *)
(***************************************************************************)
\* Both streams have been started and one of them is still playing.
Playing ==
    /\ input_stream \in {"playing", "dropped"}
    /\ output_stream \in {"playing", "dropped"}
    /\ input_stream = "playing" \/ output_stream = "playing"

\* eprintln!("An error occurred on stream: {}", err): a stream reports a
\* fault during playback.  Printing is all err_fn does.
StreamError ==
    /\ Playing
    /\ errors < MaxErrors
    /\ errors' = errors + 1
    /\ UNCHANGED <<self, host, startVars, ring, streamVars, captureVars,
                   renderVars>>

Capture(blocks, budget) ==
    \/ CaptureBegin(blocks, budget)
    \/ CapturePush
    \/ CaptureReport
    \/ CaptureReturn

Render(lengths, budget) ==
    \/ RenderBegin(lengths, budget)
    \/ RenderPop
    \/ RenderReport
    \/ RenderReturn

Next ==
    \/ Setup(SessionRates, SessionChannels)
    \/ Run
    \/ Capture(CaptureBlocks, MaxOffered)
    \/ Render(RenderBlockLengths, MaxRequested)
    \/ StreamError

Spec == Init /\ [][Next]_vars

(***************************************************************************)
(* Properties of the session.                                              *)
(***************************************************************************)
IsPrefix(a, b) ==
    /\ Len(a) <= Len(b)
    /\ \A k \in 1..Len(a) : a[k] = b[k]

\* The statements of start() before the ring exists, and before it is primed.
BeforeRing == {"find_input", "find_output", "print_names", "config",
               "latency", "ring"}

BeforePrimed == BeforeRing \cup {"prime"}

\* The step is one push of the capture callback.
CapturePushStep ==
    /\ capture.pc = "loop"
    /\ capture'.pc = "loop"
    /\ capture'.i = capture.i + 1

\* C1: under every interleaving of single pushes and pops, the samples popped
\* so far are a prefix of the priming zeros followed by the captured samples
\* pushed successfully, in the order they were pushed.
FifoOrder == IsPrefix(popped, Zeros(latency_samples) \o pushed)

\* Both callbacks are in the middle of a block and a captured sample has
\* already come out behind the priming zeros.
FifoOrderWitness ==
    /\ capture.pc = "loop"
    /\ render.pc = "loop"
    /\ latency_samples > 0
    /\ Len(popped) > latency_samples
    /\ popped[Len(popped)] # 0

\* C2: the occupancy stays within 0..C, C = 2 * latency_samples does not
\* change once the ring is allocated, and a push that finds C samples fails
\* and leaves the ring as it was, at once and every time until a pop.
CapacityInvariant ==
    /\ Len(ring) <= capacity
    /\ [][/\ Len(ring') <= capacity'
          /\ pc' # "ring" => capacity' = 2 * latency_samples'
          /\ pc \notin BeforeRing => capacity' = capacity
          /\ (CapturePushStep /\ Len(ring) = capacity) =>
                /\ ring' = ring
                /\ pushed' = pushed
                /\ capture'.failed[capture.i]
                /\ capture'.output_fell_behind]_vars
    /\ [](capture.pc = "loop" /\ capture.i <= Len(capture.data)
            => ENABLED CapturePush)

\* Two pushes in a row failed on a full ring of positive capacity.
CapacityInvariantWitness ==
    /\ capacity > 0
    /\ Len(ring) = capacity
    /\ \E k \in 2..Len(capture.failed) :
          capture.failed[k - 1] /\ capture.failed[k]

\* C3: every priming push succeeds, the unwrap never panics, and when the
\* loop ends the ring holds latency_samples zeros of capacity
\* 2 * latency_samples.
PrimingSucceeds ==
    /\ result # "panic_push"
    /\ pc = "prime" => (ring = <<>> /\ capacity = 2 * latency_samples)
    /\ pc = "build_input" =>
          /\ prime_i = latency_samples
          /\ ring = Zeros(latency_samples)
          /\ capacity = 2 * latency_samples

\* Priming has ended for a ring of positive size.
PrimingSucceedsWitness ==
    /\ pc = "build_input"
    /\ prime_i = latency_samples
    /\ Len(ring) = latency_samples
    /\ latency_samples > 0

\* C4: no stream exists before priming has ended, and the first callback
\* invocation, capture or render, finds exactly latency_samples samples in
\* the ring, all zero.
PrimedBeforeCallbacks ==
    /\ []((input_stream # "none" \/ output_stream # "none")
            => (pc \notin BeforePrimed /\ prime_i = latency_samples))
    /\ [][(offered = 0 /\ requested = 0 /\ (offered' > 0 \/ requested' > 0))
            => (ring = Zeros(latency_samples) /\ ring' = ring)]_vars

\* The first callback invocation of the session is a capture block, about to
\* push onto a ring of primed zeros.
PrimedBeforeCallbacksWitness ==
    /\ capture.pc = "loop"
    /\ capture.i = 1
    /\ offered = Len(capture.data)
    /\ requested = 0
    /\ latency_samples > 0
    /\ ring = Zeros(latency_samples)

RECURSIVE Flatten(_)
\* The samples of a sequence of pop results (<<v>> for Some(v), <<>> for
\* None), in order.
Flatten(results) ==
    IF results = <<>> THEN <<>> ELSE Head(results) \o Flatten(Tail(results))

Suffix(q, n) == SubSeq(q, Len(q) - n + 1, Len(q))

\* C7: a render invocation writes each slot of its block exactly once, in
\* order, and keeps the block's length: a slot gets the sample its pop
\* returned, or zero when that pop found the ring empty; an empty ring does
\* not end the loop, which makes one pop for every slot before it returns.
RenderFillsBlock ==
    render.pc # "idle" =>
        /\ Len(render.data) = render.len
        /\ Len(render.writes) = render.len
        /\ render.i \in 1..(render.len + 1)
        /\ Len(render.got) = render.i - 1
        /\ render.pc = "ret" => render.i = render.len + 1
        /\ \A k \in 1..render.len :
              IF k < render.i
              THEN /\ render.writes[k] = 1
                   /\ render.data[k] = IF render.got[k] = <<>> THEN 0
                                        ELSE render.got[k][1]
              ELSE /\ render.writes[k] = 0
                   /\ render.data[k] = Stale
        /\ Len(Flatten(render.got)) <= Len(popped)
        /\ Suffix(popped, Len(Flatten(render.got))) = Flatten(render.got)

\* A finished block in which a slot was filled with silence because the ring
\* was empty and a later slot received a captured sample pushed meanwhile.
RenderFillsBlockWitness ==
    /\ render.pc = "ret"
    /\ \E k, j \in 1..render.len :
          /\ k < j
          /\ render.got[k] = <<>>
          /\ render.data[k] = 0
          /\ render.got[j] # <<>>
          /\ render.data[j] # 0

\* C8: a push that fails does so on a full ring and changes nothing in it:
\* the offered sample is the one dropped.  The ring always holds, in order,
\* the accepted samples not yet popped, so they come out intact.
OverflowKeepsWindow ==
    /\ [](pc \notin {"ring", "prime"}
            => Zeros(latency_samples) \o pushed = popped \o ring)
    /\ [][(CapturePushStep /\ capture'.failed[capture.i]) =>
             /\ Len(ring) = capacity
             /\ ring' = ring
             /\ pushed' = pushed
             /\ popped' = popped]_vars

\* A push failed on a full ring of positive capacity, and every sample the
\* ring held then has since been popped, in order.
OverflowKeepsWindowWitness ==
    /\ capacity > 0
    /\ \E k \in 1..Len(capture.failed) : capture.failed[k]
    /\ ring = <<>>
    /\ Len(pushed) > 0
    /\ popped = Zeros(latency_samples) \o pushed

\* The session's state, from what start() has done so far.
SessionState ==
    IF result \notin {"running", "Ok"} THEN "Failed"
    ELSE IF input_stream = "dropped" /\ output_stream = "dropped"
    THEN "Stopped"
    ELSE IF input_stream \in {"playing", "dropped"}
            /\ output_stream \in {"playing", "dropped"}
    THEN "Playing"
    ELSE IF input_stream # "none" /\ output_stream # "none"
    THEN "StreamsBuilt"
    ELSE IF input_device # NoDevice /\ output_device # NoDevice
    THEN "DevicesResolved"
    ELSE "Idle"

SessionOrder ==
    <<"Idle", "DevicesResolved", "StreamsBuilt", "Playing", "Stopped">>

Rank(state) == CHOOSE k \in 1..Len(SessionOrder) : SessionOrder[k] = state

\* C10: the session starts Idle and each step keeps its state or moves it to
\* the next of Idle, DevicesResolved, StreamsBuilt, Playing, Stopped (or
\* ends it in failure); the configuration is negotiated only with both
\* devices resolved, a stream is started only with both built, and a
\* callback runs only on a stream that was built and started.
SessionMovesForward ==
    /\ SessionState = "Idle"
    /\ [][\/ SessionState' = SessionState
          \/ SessionState # "Failed" /\ SessionState' = "Failed"
          \/ /\ SessionState \notin {"Failed", "Stopped"}
             /\ SessionState' # "Failed"
             /\ Rank(SessionState') = Rank(SessionState) + 1]_vars
    /\ [](config # NoConfig
            => (input_device # NoDevice /\ output_device # NoDevice))
    /\ []((input_stream = "playing" \/ output_stream = "playing")
            => (input_stream # "none" /\ output_stream # "none"))
    /\ []((capture.pc # "idle" \/ offered > 0) => input_stream # "none")
    /\ [](capture.pc # "idle" => input_stream = "playing")
    /\ []((render.pc # "idle" \/ requested > 0) => output_stream # "none")
    /\ [](render.pc # "idle" => output_stream = "playing")

\* A session that played, with both callbacks having run, and has stopped.
SessionMovesForwardWitness ==
    /\ SessionState = "Stopped"
    /\ result = "Ok"
    /\ Len(pushed) > 0
    /\ Len(popped) > latency_samples

(***************************************************************************)
(* The latency primer alone, over latencies and stream configurations a    *)
(* session meets, Loopback::new()'s 150 ms on a 48 kHz stereo input among  *)
(* them: start() up to the end of priming.                                 *)
(***************************************************************************)
\* 150 (the default), 251, 62.75, 10, 1, 0.625, 0.1875, 0 and -1 ms.
PrimerLatencies ==
    {F32Lit(150, 0), F32Lit(251, 0), F32Lit(251, -2), F32Lit(10, 0),
     F32Lit(1, 0), F32Lit(5, -3), F32Lit(3, -4), F32Lit(0, 0), F32Lit(-1, 0)}

PrimerRates == {8000, 44100, 48000}

PrimerChannels == {1, 2}

\* The configured names of the primer: "y" is what stringify!(y) yields.
PrimerNames == DeviceNames \cup {Stringify("usb")}

PrimerInit ==
    InitWith(PrimerLatencies, PrimerNames,
             {NoDevice, HostInputDevices[1]}, {NoDevice, HostOutputDevices[1]})

PrimerNext == Setup(PrimerRates, PrimerChannels)

SpecPrimer == PrimerInit /\ [][PrimerNext]_vars

\* latency_frames and latency_samples have been computed.
LatencyComputed == config # NoConfig /\ pc # "latency"

RECURSIVE OddPart(_, _)
\* m * 2^e with m odd (m > 0).
OddPart(m, e) == IF m % 2 = 1 THEN <<m, e>> ELSE OddPart(m \div 2, e + 1)

\* |latency_ms| / 1000 * sample_rate as an exact fraction <<num, den>>.
ExactFrames ==
    IF self.latency.m = 0 THEN <<0, 1>>
    ELSE LET o == OddPart(self.latency.m, self.latency.e)
         IN  IF o[2] >= 0
             THEN <<o[1] * Pow2(o[2]) * config.sample_rate, 1000>>
             ELSE <<o[1] * config.sample_rate, 1000 * Pow2(-o[2])>>

\* round(latency_ms / 1000 * sample_rate), halves away from zero.
RoundedFrames ==
    LET n == (2 * ExactFrames[1] + ExactFrames[2]) \div (2 * ExactFrames[2])
    IN  IF self.latency.neg THEN -n ELSE n

\* floor(latency_ms / 1000 * sample_rate) for a latency >= 0, else 0.
FloorFrames ==
    IF self.latency.neg THEN 0 ELSE ExactFrames[1] \div ExactFrames[2]

\* n is the f32 y truncated toward zero (0 for a negative y), stated by
\* n <= y < n + 1.
TruncatesTo(y, n) ==
    IF y.neg \/ y.m = 0 THEN n = 0
    ELSE IF y.e >= 0 THEN n = y.m * Pow2(y.e)
    ELSE IF -y.e >= MantBits THEN n = 0
    ELSE n * Pow2(-y.e) <= y.m /\ y.m < (n + 1) * Pow2(-y.e)

\* C5 as stated: latency_frames is latency_ms / 1000 * sample_rate rounded
\* to the nearest integer and latency_samples is that times the channels.
LatencyRounded ==
    (LatencyComputed /\ ~self.latency.neg)
        => latency_samples = RoundedFrames * config.channels

\* C5, amended: latency_frames is the single precision product
\* (latency / 1000) * sample_rate, not rounded, and latency_samples is that
\* product truncated toward zero (0 when negative) times the channels; the
\* truncated product is within one of the floor of the exact product.
LatencyTruncated ==
    LatencyComputed =>
        /\ latency_frames = LatencyFrames(self.latency, config.sample_rate)
        /\ latency_samples % config.channels = 0
        /\ TruncatesTo(latency_frames, latency_samples \div config.channels)
        /\ latency_samples \div config.channels \in
              {FloorFrames - 1, FloorFrames, FloorFrames + 1}
        /\ latency_samples >= 0

\* 251 ms at 8000 Hz: the exact product is 2008 frames, the single precision
\* product 2007.9999, latency_frames as usize 2007.
LatencyTruncatedWitness ==
    /\ LatencyComputed
    /\ self.latency = F32Lit(251, 0)
    /\ config.sample_rate = 8000
    /\ FloorFrames = 2008
    /\ latency_samples = 2007 * config.channels

(***************************************************************************)
(* The end-to-end scenario: a ring of capacity 20 primed with 10 zeros     *)
(* (1.25 ms at 8000 Hz, one channel), one captured block 1..5, and, once   *)
(* it has been pushed, one render block long enough to drain the ring.     *)
(***************************************************************************)
ScenarioInit ==
    InitWith({F32Lit(5, -2)}, DeviceNames,
             {NoDevice, HostInputDevices[1]}, {NoDevice, HostOutputDevices[1]})

ScenarioBlock == <<1, 2, 3, 4, 5>>

ScenarioPops == 10 + Len(ScenarioBlock) + 1

\* The captured block has been pushed and the capture callback has returned.
ScenarioPushed == offered = Len(ScenarioBlock) /\ capture.pc = "idle"

\* The render callback is first called after the captured block is in.
ScenarioRenderBegin ==
    /\ ScenarioPushed
    /\ RenderBegin({ScenarioPops}, ScenarioPops)

ScenarioNext ==
    \/ Setup({8000}, {1})
    \/ Run
    \/ Capture({ScenarioBlock}, Len(ScenarioBlock))
    \/ ScenarioRenderBegin
    \/ RenderPop
    \/ RenderReport
    \/ RenderReturn

SpecScenario == ScenarioInit /\ [][ScenarioNext]_vars

\* The pop results the scenario yields: Some(0) ten times, Some(1) .. Some(5),
\* then None.
ScenarioResults ==
    [k \in 1..ScenarioPops |->
        IF k <= 10 THEN <<0>>
        ELSE IF k <= 10 + Len(ScenarioBlock) THEN <<ScenarioBlock[k - 10]>>
        ELSE <<>>]

\* C9 as stated: the first 12 pops return ten zeros, 1 and 2, and the 13th
\* pop returns None.
ScenarioAsStated ==
    (render.pc # "idle" /\ Len(render.got) >= 13) =>
        /\ capacity = 20
        /\ SubSeq(render.got, 1, 12) = [k \in 1..12 |->
              IF k <= 10 THEN <<0>> ELSE <<k - 10>>]
        /\ render.got[13] = <<>>

\* C9, amended: the ring has capacity 20 and holds 15 samples when the pops
\* begin; the first 12 pops return ten zeros, 1 and 2, the 13th, 14th and
\* 15th return 3, 4 and 5, and the 16th is the first to return None.
ScenarioDrains ==
    /\ (pc = "build_input" \/ offered > 0) => capacity = 20
    /\ (ScenarioPushed /\ requested = 0) => Len(ring) = 15
    /\ render.pc # "idle" => IsPrefix(render.got, ScenarioResults)

\* All sixteen pops are done: the 13th returned 3 and the 16th None.
ScenarioDrainsWitness ==
    /\ render.pc = "ret"
    /\ Len(render.got) = 16
    /\ SubSeq(render.data, 1, 12) = <<0, 0, 0, 0, 0, 0, 0, 0, 0, 0, 1, 2>>
    /\ render.got[13] = <<3>>
    /\ render.got[16] = <<>>
    /\ render.input_fell_behind

\* C6: with 150 ms, 48000 Hz and 2 channels, latency_frames is 7200,
\* latency_samples 14400 and the capacity 28800, and each of the 14400
\* priming pushes of zero succeeds.
DefaultPriming ==
    (self.latency = F32Lit(150, 0)
     /\ config = [sample_rate |-> 48000, channels |-> 2]) =>
    /\ result \notin {"panic_ring", "panic_push"}
    /\ LatencyComputed =>
          /\ TruncatesTo(latency_frames, 7200)
          /\ latency_samples = 14400
    /\ pc \in {"prime", "build_input"} => capacity = 28800
    /\ pc = "build_input" => (prime_i = 14400 /\ ring = Zeros(14400))

\* The priming loop has ended with 14400 zeros in the ring of 28800.
DefaultPrimingWitness ==
    /\ pc = "build_input"
    /\ self.latency = F32Lit(150, 0)
    /\ config = [sample_rate |-> 48000, channels |-> 2]
    /\ prime_i = 14400
    /\ Len(ring) = 14400
    /\ capacity = 28800

(***************************************************************************)
(* Teardown and failures of start().                                       *)
(***************************************************************************)
\* C11: a released stream's callback is not running and is never invoked
\* again; start() returns Ok only with both streams released, and once both
\* are released no callback runs and the ring never changes.
ReleasedStaysQuiet ==
    /\ [](input_stream = "dropped" => capture.pc = "idle")
    /\ [](output_stream = "dropped" => render.pc = "idle")
    /\ [](result = "Ok" =>
            (input_stream = "dropped" /\ output_stream = "dropped"))
    /\ [][input_stream = "dropped" =>
             /\ input_stream' = "dropped"
             /\ UNCHANGED captureVars]_vars
    /\ [][output_stream = "dropped" =>
             /\ output_stream' = "dropped"
             /\ UNCHANGED renderVars]_vars
    /\ [][(input_stream = "dropped" /\ output_stream = "dropped") =>
             UNCHANGED <<ring, captureVars, renderVars>>]_vars

\* start() has returned Ok after a session in which both callbacks ran and
\* which left samples in the ring.
ReleasedStaysQuietWitness ==
    /\ pc = "returned"
    /\ result = "Ok"
    /\ input_stream = "dropped"
    /\ output_stream = "dropped"
    /\ offered > 0
    /\ requested > 0
    /\ ring # <<>>

\* C12: when start() ends in a failure no stream is left built or playing
\* and no callback is running or runs afterwards; so too when
\* output_stream.play() fails with the input stream already playing.
NoStreamLeftRunning ==
    /\ []((pc = "returned" /\ result # "Ok") =>
            /\ input_stream \in {"none", "dropped"}
            /\ output_stream \in {"none", "dropped"}
            /\ capture.pc = "idle"
            /\ render.pc = "idle")
    /\ [][(pc = "returned" /\ result # "Ok") =>
             UNCHANGED <<ring, streamVars, captureVars, renderVars>>]_vars

\* output_stream.play() failed after the input stream had started and its
\* callback had been called.
NoStreamLeftRunningWitness ==
    /\ pc = "returned"
    /\ result = "Err"
    /\ offered > 0
    /\ requested = 0
    /\ input_stream = "dropped"
    /\ output_stream = "dropped"

\* The names of the devices of an enumeration.
Names(devices) == {devices[i] : i \in 1..Len(devices)}

\* The lookup of the input (output) device has given its result.
InputLookedUp == input_device # NoDevice \/ result = "panic_input"

OutputLookedUp == output_device # NoDevice \/ result = "panic_output"

\* C13 as stated: when a lookup finds no device, start() returns an error
\* to its caller, with no stream built.
DeviceNotFoundIsError ==
    (pc = "returned" /\ (input_device = NoDevice \/ output_device = NoDevice))
        => /\ result = "Err"
           /\ input_stream = "none"
           /\ output_stream = "none"

\* The host has no default input device and start() has panicked in
\* expect("Failed to find input device!").
DeviceNotFoundPanics ==
    /\ pc = "returned"
    /\ self.input_device = "default"
    /\ host.default_input = NoDevice
    /\ result = "panic_input"
    /\ input_stream = "none"
    /\ output_stream = "none"

\* C14 as stated: "default" resolves the host's default device, and any
\* other configured name that an enumerated device bears resolves that
\* device.
ResolvesByName ==
    /\ InputLookedUp =>
          IF self.input_device = "default"
          THEN input_device = host.default_input
          ELSE self.input_device \in Names(HostInputDevices)
                  => input_device = self.input_device
    /\ OutputLookedUp =>
          IF self.output_device = "default"
          THEN output_device = host.default_output
          ELSE self.output_device \in Names(HostOutputDevices)
                  => output_device = self.output_device

\* The configured input name is that of an enumerated device, and start()
\* has panicked for want of a match.
NamedDeviceNotFound ==
    /\ self.input_device # "default"
    /\ self.input_device \in Names(HostInputDevices)
    /\ result = "panic_input"
    /\ input_device = NoDevice

(***************************************************************************)
(* The fell-behind reports of the callbacks.                               *)
(***************************************************************************)
\* A push of the capture block failed.
SomePushFailed == \E k \in 1..Len(capture.failed) : capture.failed[k]

\* A pop of the render block found the ring empty.
SomePopEmpty == \E k \in 1..Len(render.got) : render.got[k] = <<>>

\* C15: a capture invocation attempts one push for each sample of its
\* block, in order, whether or not earlier pushes failed; a push fails
\* exactly when it finds the ring full; the invocation reports "output
\* stream fell behind" once, after the last push, if a push failed, and not
\* at all otherwise.
CaptureKeepsPushing ==
    /\ [](capture.pc # "idle" =>
            /\ capture.i \in 1..(Len(capture.data) + 1)
            /\ Len(capture.failed) = capture.i - 1
            /\ capture.pc = "ret" => capture.i = Len(capture.data) + 1
            /\ capture.output_fell_behind = SomePushFailed
            /\ capture.reports =
                  IF capture.pc = "ret" /\ SomePushFailed THEN 1 ELSE 0)
    /\ [][CapturePushStep =>
             capture'.failed[capture.i] = (Len(ring) = capacity)]_vars
    /\ [][capture'.reports > capture.reports =>
             /\ capture.i = Len(capture.data) + 1
             /\ capture'.pc = "ret"]_vars

\* A block whose first push failed and a later one succeeded has been
\* pushed to its end and reported once.
CaptureKeepsPushingWitness ==
    /\ capture.pc = "ret"
    /\ capture.reports = 1
    /\ Len(capture.failed) = Len(capture.data)
    /\ \E k, j \in 1..Len(capture.failed) :
          k < j /\ capture.failed[k] /\ ~capture.failed[j]

\* C16: a render invocation reports "input stream fell behind" once, after
\* the last slot of its block is filled, if a pop of the block found the
\* ring empty, and not at all if every pop of the block gave a sample.
RenderReportsOnce ==
    /\ [](render.pc # "idle" =>
            /\ render.input_fell_behind = SomePopEmpty
            /\ render.pc = "ret" => Len(render.got) = render.len
            /\ render.reports =
                  IF render.pc = "ret" /\ SomePopEmpty THEN 1 ELSE 0)
    /\ [][render'.reports > render.reports =>
             /\ render.i = render.len + 1
             /\ render'.pc = "ret"]_vars

\* A block with a slot filled from the ring and a later slot filled with
\* silence has been reported once.
RenderReportsOnceWitness ==
    /\ render.pc = "ret"
    /\ render.reports = 1
    /\ \E k, j \in 1..render.len :
          k < j /\ render.got[k] # <<>> /\ render.got[j] = <<>>

(***************************************************************************)
(* Cadence mismatch and conservation of samples.                           *)
(***************************************************************************)
\* Samples the capture side has offered to the ring so far: the pushes
\* attempted, those of a block in progress included.
PushAttempts ==
    offered - (IF capture.pc = "loop"
               THEN Len(capture.data) - capture.i + 1 ELSE 0)

\* Slots the render side has requested from the ring so far: the pops
\* attempted.
PopAttempts ==
    requested - (IF render.pc = "loop" THEN render.len - render.i + 1 ELSE 0)

\* The capture side is at most latency_samples ahead of the render side or
\* behind it.
WithinLatency ==
    PushAttempts - PopAttempts \in (0 - latency_samples)..latency_samples

\* No push has failed and no pop has found the ring empty so far, and no
\* fell-behind flag is set or reported.
NothingFellBehind ==
    /\ PushAttempts = Len(pushed)
    /\ PopAttempts = Len(popped)
    /\ ~capture.output_fell_behind
    /\ ~render.input_fell_behind
    /\ capture.reports = 0
    /\ render.reports = 0

\* C17: as long as the samples offered less the slots requested stay within
\* -latency_samples .. latency_samples, no push fails, no pop finds the ring
\* empty and nothing is reported.  Nothing has fallen behind at the start,
\* and a step from a state where nothing has fallen behind keeps it so
\* unless it takes the difference out of that range: hence a behaviour that
\* never leaves the range never falls behind.
AbsorbsMismatch ==
    /\ NothingFellBehind
    /\ [][(NothingFellBehind /\ WithinLatency /\ WithinLatency')
             => NothingFellBehind']_vars

\* Nothing has fallen behind in a session that has popped samples and has
\* the capture side a full latency ahead: the ring is full.
AbsorbsMismatchWitness ==
    /\ NothingFellBehind
    /\ latency_samples > 0
    /\ Len(popped) > 0
    /\ PushAttempts - PopAttempts = latency_samples
    /\ Len(ring) = capacity

\* The step is one pop of the render callback.
RenderPopStep ==
    /\ render.pc = "loop"
    /\ render'.pc = "loop"
    /\ render'.i = render.i + 1

\* C20: once the ring is primed, latency_samples plus the pushes that
\* succeeded equals the pops that succeeded plus the occupancy.  A push
\* either appends its sample or, on a full ring, loses it and nothing else;
\* a pop either removes the oldest sample into its slot or, on an empty
\* ring, removes nothing and the slot is silence; nothing else touches the
\* ring.
SampleConservation ==
    /\ [](pc \notin {"ring", "prime"} =>
            latency_samples + Len(pushed) = Len(popped) + Len(ring))
    /\ [][CapturePushStep =>
             IF Len(ring) < capacity
             THEN /\ ring' = Append(ring, capture.data[capture.i])
                  /\ pushed' = Append(pushed, capture.data[capture.i])
                  /\ ~capture'.failed[capture.i]
             ELSE /\ ring' = ring
                  /\ pushed' = pushed
                  /\ capture'.failed[capture.i]]_vars
    /\ [][RenderPopStep =>
             IF ring # <<>>
             THEN /\ ring' = Tail(ring)
                  /\ popped' = Append(popped, Head(ring))
                  /\ render'.data[render.i] = Head(ring)
             ELSE /\ ring' = ring
                  /\ popped' = popped
                  /\ render'.data[render.i] = 0]_vars
    /\ [][(ring' # ring \/ pushed' # pushed \/ popped' # popped) =>
             \/ CapturePushStep
             \/ RenderPopStep
             \/ pc \in {"ring", "prime"}]_vars

\* A session that has lost a sample to a full ring and filled a slot with
\* silence from an empty one, with captured samples through the ring.
SampleConservationWitness ==
    /\ latency_samples > 0
    /\ PushAttempts > Len(pushed)
    /\ PopAttempts > Len(popped)
    /\ Len(pushed) > 0
    /\ Len(popped) > latency_samples
    /\ latency_samples + Len(pushed) = Len(popped) + Len(ring)

(***************************************************************************)
(* Stream faults.                                                          *)
(***************************************************************************)
\* C18 as stated: a fault reported during playback disturbs neither the
\* callbacks nor the ring, and it ends the playback: the run duration does
\* not expire on a session that has reported a fault and is still playing.
FaultEndsPlayback ==
    /\ [][errors' # errors =>
             UNCHANGED <<ring, streamVars, captureVars, renderVars>>]_vars
    /\ [][(pc = "sleep" /\ pc' # "sleep" /\ errors > 0) =>
             ~(input_stream = "playing" /\ output_stream = "playing")]_vars

\* A fault has been reported and the session plays on: start() still
\* sleeps, both streams are playing and both callbacks are in a block.
FaultIgnored ==
    /\ pc = "sleep"
    /\ errors > 0
    /\ result = "running"
    /\ input_stream = "playing"
    /\ output_stream = "playing"
    /\ capture.pc = "loop"
    /\ render.pc = "loop"

(***************************************************************************)
(* The session under fair scheduling: the thread of start() goes on to its *)
(* next statement whenever it can again and again (the sleep ends, a drop  *)
(* returns once the callback is out), and a callback that was called runs  *)
(* on to its return, a push or a pop never blocking.  Nothing makes a      *)
(* stream call its callback or report a fault.                             *)
(***************************************************************************)
CaptureRuns == CapturePush \/ CaptureReport \/ CaptureReturn

RenderRuns == RenderPop \/ RenderReport \/ RenderReturn

SpecFair ==
    /\ Init
    /\ [][Next]_vars
    /\ SF_vars(Setup(SessionRates, SessionChannels) \/ Run)
    /\ WF_vars(CaptureRuns)
    /\ WF_vars(RenderRuns)

\* start() has got both streams playing.
Started == pc \in {"sleep", "drop_input", "drop_output", "done"}

\* C19: once both streams play, every callback invocation returns, after
\* one push or pop attempt for each sample of its block; the session is
\* Playing for as long as start() sleeps, whatever overruns and underruns
\* happen; start() then reaches Stopped and returns Ok, never an error.
RunsToCompletion ==
    /\ (capture.pc # "idle" ~> capture.pc = "idle")
    /\ (render.pc # "idle" ~> render.pc = "idle")
    /\ [](capture.pc = "ret" => Len(capture.failed) = Len(capture.data))
    /\ [](render.pc = "ret" => Len(render.got) = render.len)
    /\ [](pc = "sleep" => (SessionState = "Playing" /\ result = "running"))
    /\ [][Started => (Started' \/ (pc' = "returned" /\ result' = "Ok"))]_vars
    /\ [](Started => result = "running")
    /\ (pc = "sleep" ~>
          (pc = "returned" /\ result = "Ok" /\ SessionState = "Stopped"))

\* start() has returned Ok from a session in which a push failed on a full
\* ring and a pop found the ring empty.
RunsToCompletionWitness ==
    /\ pc = "returned"
    /\ result = "Ok"
    /\ SessionState = "Stopped"
    /\ PushAttempts > Len(pushed)
    /\ PopAttempts > Len(popped)
====
